---- MODULE Spec2Model ----
(***************************************************************************)
(* The style-transfer engine of neural_net.py: ImageGenerator.generate and *)
(* ImageGenerator.cancel, as a state machine; the style cost of a training *)
(* step as a function; and the Generate/Cancel button of art_generator.py  *)
(* with the threads that drive the engine.                                 *)
(*                                                                         *)
(* Every tensor operation on the generated image is elementwise (noise,    *)
(* optimizer update, clip, *255 and the uint8 cast), so the image is       *)
(* modelled by one element of it.  Values are counted in units of the      *)
(* noise amplitude 0.25: One units are 1.0.  The cost returned by a        *)
(* training step is a float; the model keeps its order: 1..MaxCost are     *)
(* finite costs and Inf, above all of them, is float('inf').               *)
(***************************************************************************)
EXTENDS Integers, Sequences, FiniteSets, TLC

\* ---------------------------------------------------------------- bounds
MaxEpochs == 3          \* generate is called with epochs in 0..MaxEpochs
MaxCost == 2            \* the finite costs are 1..MaxCost
MaxDelta == 1           \* one optimizer step moves a value by -MaxDelta..MaxDelta
LongEpochs == 12        \* the longest run of the progress specification
MaxAct == 1             \* a layer's activation is one value of 0..MaxAct

\* ------------------------------------------------------ program constants
One == 4                \* 1.0 in units of the noise amplitude 0.25
TracePeriod == 10       \* "if i % 10 == 0"

Callers == {"A", "B"}   \* the threads that may call generate on the instance
Inf == MaxCost + 1      \* float('inf'): above every finite cost
FiniteCosts == 1..MaxCost
Costs == FiniteCosts \cup {Inf}
Levels == 0..One        \* the values of [0.0, 1.0]
Noise == (0 - 1)..1     \* tf.random.uniform(.., -0.25, 0.25)
Deltas == (0 - MaxDelta)..MaxDelta
Acts == 0..MaxAct       \* what one layer of the network puts out

VARIABLES
    training,   \* self.training: the running flag cancel() clears
    pc,         \* pc[t]: where caller t is in generate
    frame,      \* frame[t]: the locals of caller t's generate call
    file,       \* file[t]: the file at the path caller t passed as output_image
    hist,       \* hist[t]: what has happened in caller t's current call
    twin,       \* the recorded random draws and result of a first run
    style,      \* the arguments and the result of a compute_style_cost call
    gui         \* the Generate/Cancel button and the threads of the GUI

vars == <<training, pc, frame, file, hist, twin, style, gui>>

NoFile == 0 - 1         \* no file exists at the output path

\* ------------------------------------------------------- pure functions

\* a clip that forgets the lower bound
clip_upper_only(v) == IF v > One THEN One ELSE v

\* clip_0_1: tf.clip_by_value(img, 0.0, 1.0)
clip_0_1(v) == IF v < 0 THEN 0 ELSE IF v > One THEN One ELSE v

\* initialize_generated_image: content as float, plus noise, clipped
initialize_generated_image(content, noise) == clip_0_1(content + noise)

\* tensor_to_image: tensor * 255, cast to uint8 (the cast truncates)
tensor_to_image(v) == (v * 255) \div One

\* the optimizer step and the clip of _train_step
apply_and_clip(v, delta) == clip_0_1(v + delta)

\* "<=" for "<": a tie moves the best epoch
BetterOrEqual(cost, best_cost) == cost <= best_cost

\* "if cost < best_cost": the running best after one more cost
BetterCost(cost, best_cost) == cost < best_cost

\* the period counted from 1: epochs 9, 19, ... instead of 0, 10, ...
ShouldTraceOffByOne(i, epochs) == (i + 1) % TracePeriod = 0 \/ i = epochs - 1

\* "if i % 10 == 0 or i == epochs - 1"
ShouldTrace(i, epochs) == i % TracePeriod = 0 \/ i = epochs - 1

\* "if best_epoch != epochs - 1"
ShouldReportOptimal(best_epoch, epochs) == best_epoch # epochs - 1

\* STYLE_LAYERS and content_layer of generate: <<layer name, weight>>, the
\* style weights counted in units of 0.2
STYLE_LAYERS ==
    << <<"block1_conv1", 1>>, <<"block2_conv1", 1>>, <<"block3_conv1", 1>>,
       <<"block4_conv1", 1>>, <<"block5_conv1", 1>> >>

content_layer == << <<"block5_conv4", 5>> >>

\* _get_layer_outputs(vgg, STYLE_LAYERS + content_layer): the model returns
\* one activation for each layer of the list, in the order of the list
NumOutputs == Len(STYLE_LAYERS \o content_layer)
Activations == [1..NumOutputs -> Acts]

\* compute_layer_style_cost for an activation of one value (n_H, n_W and n_C
\* are 1): the gram matrices are the squares, and the cost is the squared
\* difference of the two over (2 * 1 * 1 * 1)^2; counted in units of 1/4
compute_layer_style_cost(a_S, a_G) ==
    LET GS == a_S * a_S
        GG == a_G * a_G
    IN  (GS - GG) * (GS - GG)

DropLast(s) == SubSeq(s, 1, Len(s) - 1)     \* s[:-1]
Shorter(m, n) == IF m < n THEN m ELSE n

\* "for i, weight in zip(range(len(a_S)), layers)": zip stops at the end of
\* the shorter of the two; i counts from 1 here, J_style is the running sum
RECURSIVE StyleLoop(_, _, _, _, _)
StyleLoop(a_S, a_G, layers, i, J_style) ==
    IF i > Shorter(Len(a_S), Len(layers))
      THEN J_style
      ELSE LET weight == layers[i]
               J_style_layer == compute_layer_style_cost(a_S[i], a_G[i])
           IN  StyleLoop(a_S, a_G, layers, i + 1,
                         J_style + weight[2] * J_style_layer)

\* the first element of the output lists left out instead of the last
compute_style_cost_drop_first(style_image_output, generated_image_output, layers) ==
    StyleLoop(SubSeq(style_image_output, 2, Len(style_image_output)),
              SubSeq(generated_image_output, 2, Len(generated_image_output)),
              layers, 1, 0)

\* compute_style_cost: a_S and a_G are the output lists without their last
\* element; the result is in units of 0.2 * 1/4
compute_style_cost(style_image_output, generated_image_output, layers) ==
    StyleLoop(DropLast(style_image_output), DropLast(generated_image_output),
              layers, 1, 0)

\* ------------------------------------------------------------- the state

\* what the path passed as output_image holds when generate is called:
\* nothing, or an image written earlier
OldFiles == {NoFile, tensor_to_image(One)}

InitFrame ==
    [epochs |-> 0, i |-> 0, cost |-> 0, best_cost |-> Inf, best_epoch |-> 0,
     output |-> 0]

InitHist ==
    [costs |-> <<>>,        \* the cost each training step returned
     traced |-> <<>>,       \* the progress notifications, <<epoch, cost>>
     optimal |-> <<>>,      \* the "Optimal cost" messages, <<best_cost, best_epoch>>
     steps |-> 0,           \* training steps run
     writes |-> 0,          \* writes of the output file
     bestImage |-> 0,       \* the image as the best epoch left it
     raw |-> 0,             \* the last value handed to clip_0_1
     cancelled |-> {},      \* epochs in flight when cancel() was called
     runCancel |-> FALSE,   \* cancel() was called during this call
     idleCancel |-> FALSE,  \* cancel() was called since the last call ended
     afterIdleCancel |-> FALSE, \* this call was preceded by such a cancel
     outcome |-> "none"]    \* Completed, Cancelled or Failed

InitTwin ==
    [phase |-> 0,           \* 0: nothing run; 1: first run; 2: second run
     content |-> 0,         \* the content value and the noise drawn
     noise |-> 0,
     updates |-> <<>>,      \* the <<cost, delta>> of each training step
     result |-> <<>>]       \* what the first run ended with

InitStyle ==
    [a_S |-> [i \in 1..NumOutputs |-> 0],   \* vgg_model_outputs(style image)
     a_G |-> [i \in 1..NumOutputs |-> 0],   \* vgg_model_outputs(generated image)
     J_style |-> 0,                         \* what compute_style_cost returned
     pc |-> "call"]

InitGui ==
    [text |-> "Generate",       \* the text of generate_button
     state |-> "normal",        \* its state, tk.NORMAL or tk.DISABLED
     content |-> TRUE,          \* settings[KEY_CONTENT_FILE] is not None
     style |-> TRUE,            \* settings[KEY_STYLE_FILE] is not None
     fg |-> "idle",             \* where the foreground thread is in Root.generate
     worker |-> [t \in Callers |-> "none"],    \* where thread t is in generate_async
     clicked |-> [t \in Callers |-> {}],       \* epochs at a Cancel click's cancel()
     generated |-> FALSE]       \* a generation has ended

Init ==
    /\ training = FALSE
    /\ pc = [t \in Callers |-> "idle"]
    /\ frame = [t \in Callers |-> InitFrame]
    /\ file = [t \in Callers |-> NoFile]
    /\ hist = [t \in Callers |-> InitHist]
    /\ twin = InitTwin
    /\ style = InitStyle
    /\ gui = InitGui

InLoop(t) == pc[t] \in {"step", "best", "trace", "check"}
Running(t) == pc[t] \notin {"idle", "done", "failed"}

\* ------------------------------------------------------------ the actions

\* generate entered without raising the flag
CallKeepsFlag(t, epochs, old) ==
    /\ ~Running(t)
    /\ pc' = [pc EXCEPT ![t] = "load"]
    /\ frame' = [frame EXCEPT ![t] = [InitFrame EXCEPT !.epochs = epochs]]
    /\ hist' = [hist EXCEPT ![t] =
                    [InitHist EXCEPT !.afterIdleCancel = hist[t].idleCancel]]
    /\ twin' = IF twin.phase = 1 THEN [twin EXCEPT !.updates = <<>>] ELSE twin
    /\ file' = [file EXCEPT ![t] = old]
    /\ UNCHANGED <<training, style, gui>>

\* generate is entered, with some epochs and some path as output_image:
\* self.training = True
Call(t, epochs, old) ==
    /\ ~Running(t)
    /\ training' = TRUE
    /\ pc' = [pc EXCEPT ![t] = "load"]
    /\ frame' = [frame EXCEPT ![t] = [InitFrame EXCEPT !.epochs = epochs]]
    /\ hist' = [hist EXCEPT ![t] =
                    [InitHist EXCEPT !.afterIdleCancel = hist[t].idleCancel]]
    /\ twin' = IF twin.phase = 1 THEN [twin EXCEPT !.updates = <<>>] ELSE twin
    /\ file' = [file EXCEPT ![t] = old]
    /\ UNCHANGED <<style, gui>>

\* the output file created before the images are loaded
LoadFailAfterCreate(t) ==
    /\ pc[t] = "load"
    /\ pc' = [pc EXCEPT ![t] = "failed"]
    /\ file' = [file EXCEPT ![t] = 0]
    /\ hist' = [hist EXCEPT ![t].outcome = "Failed",
                            ![t].writes = hist[t].writes + 1]
    /\ UNCHANGED <<training, frame, twin, style, gui>>

\* get_np_images raises: Image.open cannot load the content or style image
LoadFail(t) ==
    /\ pc[t] = "load"
    /\ pc' = [pc EXCEPT ![t] = "failed"]
    /\ hist' = [hist EXCEPT ![t].outcome = "Failed"]
    /\ UNCHANGED <<training, frame, file, twin, style, gui>>

\* the images load; everything up to the head of the epoch loop
Prepare(t, content, noise) ==
    /\ pc[t] = "load"
    /\ frame' = [frame EXCEPT
                    ![t].output = initialize_generated_image(content, noise),
                    ![t].best_cost = Inf,
                    ![t].best_epoch = 0,
                    ![t].i = 0]
    /\ IF 0 < frame[t].epochs
         THEN /\ pc' = [pc EXCEPT ![t] = "step"]
              /\ hist' = [hist EXCEPT ![t].bestImage = frame'[t].output,
                                      ![t].raw = content + noise]
         ELSE /\ pc' = [pc EXCEPT ![t] = "report"]
              /\ hist' = [hist EXCEPT ![t].bestImage = frame'[t].output,
                                      ![t].raw = content + noise,
                                      ![t].outcome = "Completed"]
    /\ twin' = IF twin.phase = 1
                THEN [twin EXCEPT !.content = content, !.noise = noise]
                ELSE twin
    /\ UNCHANGED <<training, file, style, gui>>

\* cost = _train_step(output): the cost, the optimizer step and the clip
TrainStep(t, cost, delta) ==
    /\ pc[t] = "step"
    /\ frame' = [frame EXCEPT
                    ![t].cost = cost,
                    ![t].output = apply_and_clip(frame[t].output, delta)]
    /\ hist' = [hist EXCEPT
                    ![t].costs = Append(hist[t].costs, cost),
                    ![t].raw = frame[t].output + delta,
                    ![t].steps = hist[t].steps + 1]
    /\ pc' = [pc EXCEPT ![t] = "best"]
    /\ twin' = IF twin.phase = 1
                THEN [twin EXCEPT !.updates = Append(@, <<cost, delta>>)]
                ELSE twin
    /\ UNCHANGED <<training, file, style, gui>>

\* the flag looked at before the best cost is recorded
BestUpdateIfTraining(t) ==
    /\ pc[t] = "best"
    /\ IF training /\ frame[t].cost < frame[t].best_cost
         THEN /\ frame' = [frame EXCEPT ![t].best_cost = frame[t].cost,
                                        ![t].best_epoch = frame[t].i]
              /\ hist' = [hist EXCEPT ![t].bestImage = frame[t].output]
         ELSE UNCHANGED <<frame, hist>>
    /\ pc' = [pc EXCEPT ![t] = "trace"]
    /\ UNCHANGED <<training, file, twin, style, gui>>

\* if cost < best_cost: best_cost = cost; best_epoch = i
BestUpdate(t) ==
    /\ pc[t] = "best"
    /\ IF BetterCost(frame[t].cost, frame[t].best_cost)
         THEN /\ frame' = [frame EXCEPT ![t].best_cost = frame[t].cost,
                                        ![t].best_epoch = frame[t].i]
              /\ hist' = [hist EXCEPT ![t].bestImage = frame[t].output]
         ELSE UNCHANGED <<frame, hist>>
    /\ pc' = [pc EXCEPT ![t] = "trace"]
    /\ UNCHANGED <<training, file, twin, style, gui>>

\* if i % 10 == 0 or i == epochs - 1: self.trace(...)
Trace(t) ==
    /\ pc[t] = "trace"
    /\ IF ShouldTrace(frame[t].i, frame[t].epochs)
         THEN hist' = [hist EXCEPT ![t].traced =
                          Append(hist[t].traced, <<frame[t].i, frame[t].cost>>)]
         ELSE UNCHANGED hist
    /\ pc' = [pc EXCEPT ![t] = "check"]
    /\ UNCHANGED <<training, frame, file, twin, style, gui>>

\* the flag looked at only in the epochs that report progress
CheckWhenTraced(t) ==
    /\ pc[t] = "check"
    /\ IF ~training /\ frame[t].i % TracePeriod = 0
         THEN /\ pc' = [pc EXCEPT ![t] = "report"]
              /\ hist' = [hist EXCEPT ![t].outcome = "Cancelled"]
              /\ UNCHANGED frame
         ELSE IF frame[t].i + 1 < frame[t].epochs
                THEN /\ pc' = [pc EXCEPT ![t] = "step"]
                     /\ frame' = [frame EXCEPT ![t].i = frame[t].i + 1]
                     /\ UNCHANGED hist
                ELSE /\ pc' = [pc EXCEPT ![t] = "report"]
                     /\ hist' = [hist EXCEPT ![t].outcome = "Completed"]
                     /\ UNCHANGED frame
    /\ UNCHANGED <<training, file, twin, style, gui>>

\* the flag not looked at in the last epoch of range(epochs)
CheckIgnoresLastEpoch(t) ==
    /\ pc[t] = "check"
    /\ IF frame[t].i + 1 < frame[t].epochs
         THEN IF ~training
                THEN /\ pc' = [pc EXCEPT ![t] = "report"]
                     /\ hist' = [hist EXCEPT ![t].outcome = "Cancelled"]
                     /\ UNCHANGED frame
                ELSE /\ pc' = [pc EXCEPT ![t] = "step"]
                     /\ frame' = [frame EXCEPT ![t].i = frame[t].i + 1]
                     /\ UNCHANGED hist
         ELSE /\ pc' = [pc EXCEPT ![t] = "report"]
              /\ hist' = [hist EXCEPT ![t].outcome = "Completed"]
              /\ UNCHANGED frame
    /\ UNCHANGED <<training, file, twin, style, gui>>

\* if not self.training: break; otherwise the next i of range(epochs)
Check(t) ==
    /\ pc[t] = "check"
    /\ IF ~training
         THEN /\ pc' = [pc EXCEPT ![t] = "report"]
              /\ hist' = [hist EXCEPT ![t].outcome = "Cancelled"]
              /\ UNCHANGED frame
         ELSE IF frame[t].i + 1 < frame[t].epochs
                THEN /\ pc' = [pc EXCEPT ![t] = "step"]
                     /\ frame' = [frame EXCEPT ![t].i = frame[t].i + 1]
                     /\ UNCHANGED hist
                ELSE /\ pc' = [pc EXCEPT ![t] = "report"]
                     /\ hist' = [hist EXCEPT ![t].outcome = "Completed"]
                     /\ UNCHANGED frame
    /\ UNCHANGED <<training, file, twin, style, gui>>

\* if best_epoch != epochs - 1: self.trace("Optimal cost was ...")
Report(t) ==
    /\ pc[t] = "report"
    /\ IF ShouldReportOptimal(frame[t].best_epoch, frame[t].epochs)
         THEN hist' = [hist EXCEPT ![t].optimal =
                          Append(hist[t].optimal,
                                 <<frame[t].best_cost, frame[t].best_epoch>>)]
         ELSE UNCHANGED hist
    /\ pc' = [pc EXCEPT ![t] = "save"]
    /\ UNCHANGED <<training, frame, file, twin, style, gui>>

\* the image of the best epoch written instead of the current one
SaveBest(t) ==
    /\ pc[t] = "save"
    /\ file' = [file EXCEPT ![t] = tensor_to_image(hist[t].bestImage)]
    /\ hist' = [hist EXCEPT ![t].writes = hist[t].writes + 1]
    /\ pc' = [pc EXCEPT ![t] = "exit"]
    /\ UNCHANGED <<training, frame, twin, style, gui>>

\* image = tensor_to_image(output); image.save(output_image)
Save(t) ==
    /\ pc[t] = "save"
    /\ file' = [file EXCEPT ![t] = tensor_to_image(frame[t].output)]
    /\ hist' = [hist EXCEPT ![t].writes = hist[t].writes + 1]
    /\ pc' = [pc EXCEPT ![t] = "exit"]
    /\ UNCHANGED <<training, frame, twin, style, gui>>

\* self.training = False, and generate returns
Exit(t) ==
    /\ pc[t] = "exit"
    /\ training' = FALSE
    /\ pc' = [pc EXCEPT ![t] = "done"]
    /\ UNCHANGED <<frame, file, hist, twin, style, gui>>

\* cancel(): self.training = False
cancel ==
    /\ training' = FALSE
    /\ hist' = [t \in Callers |->
                  IF Running(t)
                    THEN [hist[t] EXCEPT
                            !.runCancel = TRUE,
                            !.cancelled = IF InLoop(t)
                                            THEN @ \cup {frame[t].i} ELSE @]
                    ELSE [hist[t] EXCEPT !.idleCancel = TRUE]]
    /\ UNCHANGED <<pc, frame, file, twin, style>>

\* cancel() called from any execution context
Cancel ==
    /\ cancel
    /\ UNCHANGED gui

\* What the caller of generate receives.  generate has no return statement:
\* a call that ends normally returns None, after a completed loop and after
\* a break alike; a load failure leaves it by the exception of Image.open.
ReturnValue(t) ==
    IF pc[t] = "done" THEN "None"
    ELSE IF pc[t] = "failed" THEN "raised"
    ELSE "pending"

\* one step of caller t, its inputs drawn from the given sets: the epochs
\* argument, what the output path holds, the content value, the noise, the
\* cost and the optimizer's step
Generate(t, Es, Fs, Ls, Ns, Cs, Ds) ==
    \/ \E e \in Es, old \in Fs : Call(t, e, old)
    \/ LoadFail(t)
    \/ \E c \in Ls, n \in Ns : Prepare(t, c, n)
    \/ \E c \in Cs, d \in Ds : TrainStep(t, c, d)
    \/ BestUpdate(t)
    \/ Trace(t)
    \/ Check(t)
    \/ Report(t)
    \/ Save(t)
    \/ Exit(t)

\* The engine as its contract describes its use: one caller of generate at a
\* time, and cancel() from any other execution context at any time.
Next ==
    \/ Generate("A", 0..MaxEpochs, OldFiles, Levels, Noise, Costs, Deltas)
    \/ Cancel

Spec == Init /\ [][Next]_vars

\* Long runs, for the cadence of the progress notifications: the epoch
\* count reaches past TracePeriod, the image is held still.
NextLong ==
    \/ Generate("A", {LongEpochs}, {NoFile}, {0}, {0}, {1, Inf}, {0})
    \/ Cancel

SpecLong == Init /\ [][NextLong]_vars

\* Two threads calling generate on the same instance: nothing in generate
\* looks at self.training before setting it.
NextConc ==
    \/ \E t \in Callers : Generate(t, {1, 2}, {NoFile}, {0}, {0}, {1}, {0})
    \/ Cancel

SpecConc == Init /\ [][NextConc]_vars

\* The same random draws twice ("deterministic seed"): a first call of
\* generate whose draws are recorded in twin, then a second call, with epochs
\* set to the number of epochs the first one ran, that is fed the recorded
\* draws.  cancel() is called, at any time, during the first run only.
Result(t) ==
    [output |-> frame[t].output, best_cost |-> frame[t].best_cost,
     best_epoch |-> frame[t].best_epoch, file |-> file[t],
     outcome |-> hist[t].outcome, steps |-> hist[t].steps,
     returned |-> ReturnValue(t)]

StartRecording ==
    /\ twin.phase = 0
    /\ twin' = [twin EXCEPT !.phase = 1]
    /\ UNCHANGED <<training, pc, frame, file, hist, style, gui>>

StartReplay ==
    /\ twin.phase = 1
    /\ pc["A"] = "done"
    /\ twin' = [twin EXCEPT !.phase = 2, !.result = <<Result("A")>>]
    /\ UNCHANGED <<training, pc, frame, file, hist, style, gui>>

FirstRun ==
    /\ twin.phase = 1
    /\ pc["A"] # "done"
    /\ Generate("A", 1..MaxEpochs, {NoFile}, {One}, Noise, FiniteCosts,
                {0 - MaxDelta, MaxDelta})

SecondRun ==
    /\ twin.phase = 2
    /\ \/ pc["A"] = "done" /\ hist["A"].steps = twin.result[1].steps
       \/ Running("A")
    /\ Generate("A", {twin.result[1].steps}, {NoFile},
                {twin.content}, {twin.noise},
                {twin.updates[frame["A"].i + 1][1]},
                {twin.updates[frame["A"].i + 1][2]})

NextSeed ==
    \/ StartRecording
    \/ FirstRun
    \/ StartReplay
    \/ SecondRun
    \/ twin.phase = 1 /\ Cancel

SpecSeed == Init /\ [][NextSeed]_vars

\* The GUI of art_generator.py: the foreground thread runs Root.generate on
\* each click of the enabled button and select_image_file on a file choice;
\* each generation runs generate_async, and in it ImageGenerator.generate, on
\* a thread of its own.  Nothing in the source orders the statements of one
\* thread with those of another, so they interleave statement by statement.
\* At most two generation threads are alive at a time.
engine == <<training, pc, frame, file, hist, twin, style>>

\* the button as Root.__init__ leaves it: disabled until both images are set
InitButton(content, style_file) ==
    [InitGui EXCEPT !.content = content, !.style = style_file,
                    !.state = IF content /\ style_file
                                THEN "normal" ELSE "disabled"]

\* a click on the enabled button: current_button = cget("text")
Click ==
    /\ gui.fg = "idle"
    /\ gui.state = "normal"
    /\ gui' = [gui EXCEPT !.fg = IF gui.text = "Generate" THEN "text"
                                 ELSE IF gui.text = "Cancel" THEN "disable"
                                 ELSE "idle"]
    /\ UNCHANGED engine

\* Root.generate, "Generate" branch: config (text = "Cancel")
FgText ==
    /\ gui.fg = "text"
    /\ gui' = [gui EXCEPT !.text = "Cancel", !.fg = "start"]
    /\ UNCHANGED engine

\* Thread (target = self.generate_async).start (): a new thread t, which has
\* not entered generate
FgStart ==
    /\ gui.fg = "start"
    /\ \E t \in Callers :
          /\ gui.worker[t] = "none"
          /\ gui' = [gui EXCEPT !.fg = "idle", !.worker[t] = "text",
                                !.clicked[t] = {}]
          /\ pc' = [pc EXCEPT ![t] = "idle"]
          /\ frame' = [frame EXCEPT ![t] = InitFrame]
          /\ hist' = [hist EXCEPT ![t] = InitHist]
    /\ UNCHANGED <<training, file, twin, style>>

\* Root.generate, "Cancel" branch: config (state = tk.DISABLED)
FgDisable ==
    /\ gui.fg = "disable"
    /\ gui' = [gui EXCEPT !.state = "disabled", !.fg = "cancel"]
    /\ UNCHANGED engine

\* Root.generate, "Cancel" branch: self.image_generator.cancel ().  For each
\* generation that has not left its epoch loop, the epoch in flight (epoch 0
\* if the loop is not entered yet) is noted in clicked.
FgCancel ==
    /\ gui.fg = "cancel"
    /\ cancel
    /\ gui' = [gui EXCEPT
                 !.fg = "idle",
                 !.clicked = [t \in Callers |->
                      IF gui.worker[t] \in {"text", "generate"}
                           /\ pc[t] \in {"idle", "load"}
                        THEN gui.clicked[t] \cup {0}
                      ELSE IF gui.worker[t] = "generate" /\ InLoop(t)
                        THEN gui.clicked[t] \cup {frame[t].i}
                      ELSE gui.clicked[t]]]

\* generate_async: config (text = "Cancel")
WorkerText(t) ==
    /\ gui.worker[t] = "text"
    /\ gui' = [gui EXCEPT !.text = "Cancel", !.worker[t] = "generate"]
    /\ UNCHANGED engine

\* generate_async: self.image_generator.generate (.., self.epochs.get_value (), ..),
\* one step of it
WorkerGenerate(t) ==
    /\ gui.worker[t] = "generate"
    /\ pc[t] \notin {"done", "failed"}
    /\ Generate(t, {1, 2}, {NoFile}, {0}, {0}, {1}, {0})

\* generate has returned ("Image generation complete", pop_up_image) or has
\* raised ("Error generating image"): on to the finally clause
WorkerReturn(t) ==
    /\ gui.worker[t] = "generate"
    /\ pc[t] \in {"done", "failed"}
    /\ gui' = [gui EXCEPT !.worker[t] = "reset", !.generated = TRUE]
    /\ UNCHANGED engine

\* finally: config (text = "Generate")
WorkerReset(t) ==
    /\ gui.worker[t] = "reset"
    /\ gui' = [gui EXCEPT !.text = "Generate", !.worker[t] = "enable"]
    /\ UNCHANGED engine

\* finally: config (state = tk.NORMAL), and the thread ends
WorkerEnable(t) ==
    /\ gui.worker[t] = "enable"
    /\ gui' = [gui EXCEPT !.state = "normal", !.worker[t] = "none"]
    /\ UNCHANGED engine

\* select_image_file with a file that exists: the setting is stored, and the
\* button is enabled if both images are set
SelectImageFile(key) ==
    /\ gui.fg = "idle"
    /\ LET content == key = "content" \/ gui.content
           style_file == key = "style" \/ gui.style
       IN  gui' = [gui EXCEPT !.content = content, !.style = style_file,
                              !.state = IF content /\ style_file
                                          THEN "normal" ELSE gui.state]
    /\ UNCHANGED engine

InitGuiSettings ==
    /\ training = FALSE
    /\ pc = [t \in Callers |-> "idle"]
    /\ frame = [t \in Callers |-> InitFrame]
    /\ file = [t \in Callers |-> NoFile]
    /\ hist = [t \in Callers |-> InitHist]
    /\ twin = InitTwin
    /\ style = InitStyle
    /\ gui \in {InitButton(c, s) : c \in BOOLEAN, s \in BOOLEAN}

NextGui ==
    \/ Click
    \/ FgText
    \/ FgStart
    \/ FgDisable
    \/ FgCancel
    \/ \E t \in Callers : WorkerText(t)
    \/ \E t \in Callers : WorkerGenerate(t)
    \/ \E t \in Callers : WorkerReturn(t)
    \/ \E t \in Callers : WorkerReset(t)
    \/ \E t \in Callers : WorkerEnable(t)
    \/ \E key \in {"content", "style"} : SelectImageFile(key)

SpecGui == InitGuiSettings /\ [][NextGui]_vars

\* The style cost as a function of the activations: the two output lists
\* are drawn from the bounded activations, and _train_step applies
\* compute_style_cost to them with STYLE_LAYERS.
StyleCost ==
    /\ style.pc = "call"
    /\ style' = [style EXCEPT
                    !.J_style = compute_style_cost(style.a_S, style.a_G,
                                                   STYLE_LAYERS),
                    !.pc = "returned"]
    /\ UNCHANGED <<training, pc, frame, file, hist, twin, gui>>

InitStyleInputs ==
    /\ training = FALSE
    /\ pc = [t \in Callers |-> "idle"]
    /\ frame = [t \in Callers |-> InitFrame]
    /\ file = [t \in Callers |-> NoFile]
    /\ hist = [t \in Callers |-> InitHist]
    /\ twin = InitTwin
    /\ style \in [a_S : Activations, a_G : Activations, J_style : {0},
                  pc : {"call"}]
    /\ gui = InitGui

NextStyle == StyleCost

SpecStyle == InitStyleInputs /\ [][NextStyle]_vars

\* ------------------------------------------------------------ the claims

\* C1: a cancel() during epoch k of the loop lets epoch k finish its training
\* step and stops the loop at epoch k's check: k + 1 steps are run, no more.
CancelStopsAtEpochEnd ==
    \A t \in Callers : \A k \in hist[t].cancelled :
        /\ hist[t].steps <= k + 1
        /\ InLoop(t) => frame[t].i = k
        /\ ~InLoop(t) => /\ hist[t].steps = k + 1
                         /\ hist[t].outcome = "Cancelled"

CancelledMidRun ==
    /\ pc["A"] = "done"
    /\ \E k \in hist["A"].cancelled :
          k >= 1 /\ k + 1 < frame["A"].epochs /\ hist["A"].steps = k + 1

\* C2: with the same draws, a run cancelled after k epochs and a run of
\* epochs = k that is never cancelled end with the same image, best cost and
\* best epoch.
CancelledEqualsShortRun ==
    ( /\ twin.phase = 2
      /\ pc["A"] = "done"
      /\ ~hist["A"].runCancel
      /\ twin.result[1].outcome = "Cancelled" )
    => /\ hist["A"].outcome = "Completed"
       /\ frame["A"].epochs = twin.result[1].steps
       /\ frame["A"].output = twin.result[1].output
       /\ frame["A"].best_cost = twin.result[1].best_cost
       /\ frame["A"].best_epoch = twin.result[1].best_epoch

ShortRunReplayed ==
    /\ twin.phase = 2
    /\ pc["A"] = "done"
    /\ ~hist["A"].runCancel
    /\ hist["A"].outcome = "Completed"
    /\ twin.result[1].outcome = "Cancelled"
    /\ twin.result[1].steps = 2
    /\ twin.result[1].best_epoch = 1
    /\ twin.result[1].output # initialize_generated_image(twin.content, twin.noise)

\* C3: once the best-cost update of N >= 1 epochs has run, best_cost is the
\* least of their costs and best_epoch the earliest epoch that returned it.
BestIsEarliestMinimum ==
    \A t \in Callers :
        LET n == IF pc[t] = "best" THEN hist[t].steps - 1 ELSE hist[t].steps
            costs == hist[t].costs
        IN  n >= 1 =>
              /\ frame[t].best_epoch \in 0..(n - 1)
              /\ costs[frame[t].best_epoch + 1] = frame[t].best_cost
              /\ \A j \in 1..n : frame[t].best_cost <= costs[j]
              /\ \A j \in 1..frame[t].best_epoch : frame[t].best_cost < costs[j]

BestTiedLater ==
    /\ pc["A"] = "check"
    /\ hist["A"].steps = 3
    /\ frame["A"].best_epoch = 1
    /\ hist["A"].costs[3] = frame["A"].best_cost
    /\ hist["A"].costs[1] > frame["A"].best_cost

\* C4: at most one generate call is active on the instance at any time.
SingleFlight == Cardinality({t \in Callers : Running(t)}) <= 1

\* C5: a cancel() while no generate call is active changes nothing that can
\* be observed, and the call started after it runs all its epochs unless
\* cancel() is called again during that call.
SessionIdle == \A t \in Callers : pc[t] \in {"idle", "done"}
Observable == <<training, pc, frame, file>>
IdleCancelIsNoOp ==
    /\ [][SessionIdle /\ SessionIdle' => Observable' = Observable]_vars
    /\ [](\A t \in Callers :
            (hist[t].afterIdleCancel /\ ~hist[t].runCancel /\ ~InLoop(t)
                /\ pc[t] \notin {"load", "failed"})
            => hist[t].steps = frame[t].epochs /\ hist[t].outcome = "Completed")

FullRunAfterIdleCancel ==
    /\ pc["A"] = "done"
    /\ hist["A"].afterIdleCancel
    /\ ~hist["A"].runCancel
    /\ frame["A"].epochs = MaxEpochs
    /\ hist["A"].steps = MaxEpochs

\* C6: a call whose images cannot be loaded fails before the loop: no
\* progress notification, no training step, no write of the output file.
LoadFailureBeforeLoop ==
    \A t \in Callers :
        hist[t].outcome = "Failed" =>
            /\ pc[t] = "failed"
            /\ hist[t].traced = <<>>
            /\ hist[t].optimal = <<>>
            /\ hist[t].steps = 0
            /\ hist[t].writes = 0

FailedWithEarlierOutput ==
    /\ pc["A"] = "failed"
    /\ hist["A"].outcome = "Failed"
    /\ file["A"] = tensor_to_image(One)

\* C7: a non-finite cost in epoch j aborts the loop in that epoch: no later
\* training step, no output file, and the call does not end as a normal
\* completion or cancellation.
NonFiniteCostAborts ==
    \A t \in Callers : \A j \in 1..Len(hist[t].costs) :
        hist[t].costs[j] = Inf =>
            /\ hist[t].steps = j
            /\ hist[t].writes = 0
            /\ hist[t].outcome \notin {"Completed", "Cancelled"}
            /\ pc[t] # "done"

\* C8: no output is written before the loop has ended; after it, exactly one
\* write has been made, and the file holds the current image, the one the
\* last epoch left, converted by tensor_to_image.
OutputWrittenOnceAfterLoop ==
    \A t \in Callers :
        /\ pc[t] \in {"load", "step", "best", "trace", "check", "report", "save"}
             => hist[t].writes = 0
        /\ pc[t] \in {"exit", "done"}
             => /\ hist[t].writes = 1
                /\ hist[t].outcome \in {"Completed", "Cancelled"}
                /\ file[t] = tensor_to_image(clip_0_1(hist[t].raw))
                /\ file[t] = tensor_to_image(frame[t].output)

WroteLastNotBest ==
    /\ pc["A"] = "done"
    /\ hist["A"].writes = 1
    /\ frame["A"].best_epoch < hist["A"].steps - 1
    /\ file["A"] # tensor_to_image(hist["A"].bestImage)

\* C9: the progress notifications are exactly <<i, cost of epoch i>> for the
\* epochs i whose trace statement has been passed and that have i % 10 = 0
\* or i = epochs - 1, once each, in increasing order; the epoch at its
\* cancellation check has already been notified.
ProgressCadence ==
    \A t \in Callers :
        LET n == IF pc[t] \in {"best", "trace"}
                   THEN hist[t].steps - 1 ELSE hist[t].steps
            all == [j \in 1..n |-> <<j - 1, hist[t].costs[j]>>]
            IsDue(x) == x[1] % TracePeriod = 0 \/ x[1] = frame[t].epochs - 1
        IN  hist[t].traced = SelectSeq(all, IsDue)

ThreeNotifications ==
    /\ pc["A"] = "done"
    /\ hist["A"].outcome = "Completed"
    /\ Len(hist["A"].traced) = 3
    /\ hist["A"].traced[2][1] = TracePeriod
    /\ hist["A"].traced[3][1] = frame["A"].epochs - 1

\* C10: the generated image is within [0, 1] after initialization and after
\* the clip of every training step, whatever step the optimizer applied.
PixelsInUnitRange ==
    \A t \in Callers : 0 <= frame[t].output /\ frame[t].output <= One

ClippedAfterStep ==
    /\ pc["A"] = "best"
    /\ hist["A"].steps >= 2
    /\ hist["A"].raw < 0

\* C11: each generate call goes from Idle through Running to exactly one of
\* Completed, Cancelled and Failed.  It becomes Completed only when all its
\* epochs have run and the last end-of-epoch check saw the flag set (or there
\* was no epoch to run), Cancelled only at an end-of-epoch check that saw the
\* flag cleared, Failed only when the images do not load; and the outcome of
\* a call, once reached, does not change for the rest of that call.
OneFinalOutcome ==
    /\ [](\A t \in Callers :
            /\ hist[t].outcome \in {"none", "Completed", "Cancelled", "Failed"}
            /\ pc[t] \in {"idle", "load", "step", "best", "trace", "check"}
                 => hist[t].outcome = "none"
            /\ pc[t] \in {"report", "save", "exit", "done"}
                 => hist[t].outcome \in {"Completed", "Cancelled"}
            /\ pc[t] = "failed" => hist[t].outcome = "Failed"
            /\ hist[t].outcome = "Completed" => hist[t].steps = frame[t].epochs)
    /\ [][\A t \in Callers :
            /\ (hist[t].outcome # "none" /\ pc'[t] # "load")
                 => hist'[t].outcome = hist[t].outcome
            /\ (hist[t].outcome = "none" /\ hist'[t].outcome = "Completed")
                 => \/ pc[t] = "check" /\ training
                         /\ frame[t].i = frame[t].epochs - 1
                    \/ pc[t] = "load" /\ frame[t].epochs = 0
            /\ (hist[t].outcome = "none" /\ hist'[t].outcome = "Cancelled")
                 => pc[t] = "check" /\ ~training
            /\ (hist[t].outcome = "none" /\ hist'[t].outcome = "Failed")
                 => pc[t] = "load"]_vars

CancelledInFinalEpoch ==
    /\ pc["A"] = "done"
    /\ hist["A"].outcome = "Cancelled"
    /\ frame["A"].epochs = MaxEpochs
    /\ hist["A"].steps = MaxEpochs
    /\ hist["A"].cancelled = {MaxEpochs - 1}

\* C12: a cancelled call returns normally, and what it returns differs from
\* what a call that ran all its epochs returns: of a first call that was
\* cancelled and a second call that completed, the returned values differ.
CancelledResultDiffers ==
    ( /\ twin.phase = 2
      /\ pc["A"] = "done"
      /\ hist["A"].outcome = "Completed"
      /\ twin.result[1].outcome = "Cancelled" )
    => /\ twin.result[1].returned # "raised"
       /\ twin.result[1].returned # ReturnValue("A")

\* C13: the style cost returned is the sum, over every position i of the
\* output lists but the last, of the i-th weight of STYLE_LAYERS times the
\* layer style cost of the i-th style and generated activations; there are
\* as many weights as positions but the last, so that every style layer
\* counts and the content layer's activation does not.
RECURSIVE SumTo(_, _)
SumTo(f, n) == IF n = 0 THEN 0 ELSE f[n] + SumTo(f, n - 1)
StyleCostIsWeightedSum ==
    LET n == Len(style.a_S) - 1
        term == [i \in 1..n |->
                    STYLE_LAYERS[i][2]
                      * compute_layer_style_cost(style.a_S[i], style.a_G[i])]
    IN  style.pc = "returned" =>
            /\ Len(STYLE_LAYERS) = n
            /\ Len(style.a_G) = n + 1
            /\ style.J_style = SumTo(term, n)

LastStyleLayerCounts ==
    /\ style.pc = "returned"
    /\ \A i \in 1..(NumOutputs - 2) : style.a_S[i] = style.a_G[i]
    /\ style.a_S[NumOutputs - 1] # style.a_G[NumOutputs - 1]
    /\ style.a_S[NumOutputs] # style.a_G[NumOutputs]
    /\ style.J_style = compute_layer_style_cost(style.a_S[NumOutputs - 1],
                                                style.a_G[NumOutputs - 1])
    /\ style.J_style > 0

\* C14: once the end of generate has passed the test of line 250, the
\* "Optimal cost" message has been emitted, once, exactly if best_epoch is
\* not the last epoch that ran; a call that ran no epoch emits none.
OptimalMessageIffNotLast ==
    \A t \in Callers :
        pc[t] \in {"save", "exit", "done"} =>
            /\ Len(hist[t].optimal) <= 1
            /\ Len(hist[t].optimal) = 1
                 <=> /\ hist[t].steps > 0
                     /\ frame[t].best_epoch # hist[t].steps - 1

\* C15: whenever no generate call is executing, self.training is false:
\* before the first call and after a call has ended, be it completed,
\* cancelled or failed.
FlagClearWhenNoCall ==
    (\A t \in Callers : ~Running(t)) => ~training

\* C16: a click on the button while it reads "Cancel" is not lost: once a
\* generation that had not left its epoch loop when the click's cancel() was
\* called has left the loop, it has stopped before its last configured
\* epoch, or at the epoch that was in flight at the click.
CancelClickHonoured ==
    \A t \in Callers : \A k \in gui.clicked[t] :
        pc[t] \in {"report", "save", "exit", "done"}
            => \/ hist[t].steps < frame[t].epochs
               \/ hist[t].steps = k + 1

\* C17: when a generation has ended and no handler and no generation thread
\* is running any more, the button shows "Generate" and is enabled; and
\* while a generation is in its epoch loop the button does not show
\* "Generate" and no second generation is in generate.
ButtonResetAfterGeneration ==
    ( /\ gui.generated
      /\ gui.fg = "idle"
      /\ \A t \in Callers : gui.worker[t] = "none" )
    => gui.text = "Generate" /\ gui.state = "normal"

NoGenerateTextDuringRun ==
    \A t \in Callers :
        (gui.worker[t] = "generate" /\ InLoop(t))
            => /\ gui.text = "Cancel"
               /\ \A u \in Callers \ {t} :
                     ~(gui.worker[u] = "generate" /\ Running(u))

ButtonFollowsGeneration ==
    ButtonResetAfterGeneration /\ NoGenerateTextDuringRun

====
